---------------------------- MODULE Spec2Model ----------------------------
(***************************************************************************)
(* juju/fslock: a cross-process mutex built on file locks.                 *)
(*                                                                         *)
(* Two backends implement the same three operations on a Lock handle:      *)
(*   "flock"      (darwin, linux, ...): syscall.Flock on a descriptor      *)
(*   "LockFileEx" (windows): LockFileEx on a handle opened for overlapped  *)
(*                 I/O, plus an event object per lock attempt              *)
(*                                                                         *)
(* The operating system's lock table is part of the state: which open      *)
(* file (handle) owns the exclusive lock, and, on windows, the lock        *)
(* requests the system has queued.  The system calls are modelled by what  *)
(* the platform documents for them:                                        *)
(*   flock(LOCK_EX)          blocks while another open file owns the lock; *)
(*                           a no-op when the caller's own file owns it    *)
(*   flock(LOCK_EX|LOCK_NB)  EWOULDBLOCK instead of blocking               *)
(*   flock(LOCK_UN)          always succeeds                               *)
(*   open(O_CREAT)           opens the file, creating it when absent       *)
(*   CreateFile(CREATE_NEW)  fails with ERROR_FILE_EXISTS when the file    *)
(*                           exists                                        *)
(*   LockFileEx (overlapped handle, no LOCKFILE_FAIL_IMMEDIATELY)          *)
(*                           returns TRUE when the lock is granted at      *)
(*                           once; otherwise queues the request and        *)
(*                           returns FALSE with ERROR_IO_PENDING.  A       *)
(*                           range locked exclusively conflicts with every *)
(*                           new request, the owner's own included         *)
(*   UnlockFileEx            ERROR_NOT_LOCKED when the handle owns no lock *)
(*   WaitForSingleObject     (Go's wrapper) reports WAIT_TIMEOUT in its    *)
(*                           first result, with a nil error                *)
(* Any native lock, unlock, event or wait call can also fail with an error *)
(* of its own (EINTR, ENOLCK, an invalid handle, ...): runs with such      *)
(* failures are the behaviours of SpecFault.                               *)
(* Times are in milliseconds.                                              *)
(***************************************************************************)
EXTENDS Integers, FiniteSets

\* ------------------------------------------------------------- bounds
NumHandles == 2
MaxSleeps == 2
MaxTimeout == 60
MinTimeout == 1
MaxOvershoot == 50
MaxPending == 1
MaxFaults == 1
lockAttempts == 4

\* ---------------------------------------------------------- constants
\* time.Sleep(50 * time.Millisecond)
PollInterval == 50

Handles == 1 .. NumHandles
concurrentLocks == NumHandles
Backends == {"flock", "LockFileEx"}
Timeouts == {-PollInterval, 0, MinTimeout, MaxTimeout}
Overshoots == {0, MaxOvershoot}
Foreign == 0

VARIABLES
    backend,     \* the backend this build selects
    fileExists,  \* the lock file exists on disk
    opened,      \* opened[h]: New returned handle h without error
    held,        \* held[h]: the system's lock table gives h's open file the lock
    foreign,     \* another process, which opened the file itself, owns the lock
    pending,     \* pending[h]: h's lock requests queued by the system (windows)
    event,       \* event[h]: the event object of h's current lock attempt
    pc,          \* pc[h]: where h's caller is inside the current call
    op,          \* op[h]: the current, or else the last, call on h
    result,      \* result[h]: what that call returned ("none": not yet)
    timeout,     \* timeout[h]: the argument of h's LockWithTimeout
    elapsed,     \* elapsed[h]: time.Since(t) of h's LockWithTimeout
    attempts,    \* attempts[h]: native lock requests made by the call
    slept,       \* slept[h]: time.Sleep calls made by the call
    believes,    \* believes[h]: h's last Lock/LockWithTimeout returned nil, no Unlock since
    contention,  \* contention[h]: the lock as the call on h met it (history)
    counter,     \* counter[h]: TestStress cycles worker h completed
    waitMs,      \* waitMs[h]: the timeout argument h's call passed to the native wait
    faults       \* the failures of native calls, for reasons of their own, still to come

vars == <<backend, fileExists, opened, held, foreign, pending, event, pc, op,
          result, timeout, elapsed, attempts, slept, believes, contention, counter,
          waitMs, faults>>

\* ---------------------------------------------------------- the system
\* Who owns the exclusive lock in the system's lock table.
Holders == {h \in Handles : held[h]} \cup (IF foreign THEN {Foreign} ELSE {})

\* The owners whose lock stands in the way of a request made through h.
Conflicts(h) == IF backend = "flock" THEN Holders \ {h} ELSE Holders

\* Variant: a shared request (LOCK_SH) is granted beside any other lock.
CanGrantShared(h) == TRUE

\* An exclusive request (LOCK_EX, lockfileExclusiveLock) is granted only when
\* no conflicting lock exists.
CanGrant(h) == Conflicts(h) = {}

\* The lock as a call on h meets it.
Contention(h) ==
    IF Holders = {} THEN "free"
    ELSE IF Holders = {h} THEN "self"
    ELSE "held"

\* A release: calls that met the lock held have no longer been held off throughout.
Released(c) == [g \in Handles |-> IF c[g] = "held" THEN "released" ELSE c[g]]

\* A 32-bit unsigned value, as its two 16-bit halves <<high, low>>: the conversion
\* uint32(n) of a 64-bit integer keeps n modulo 2^32.
uint32(n) == <<(n \div 65536) % 65536, n % 65536>>

\* syscall.INFINITE = 0xFFFFFFFF
INFINITE == uint32(-1)

\* No native wait was made by the call.
NoWait == <<>>

\* The state after construction, whatever the environment.
Start ==
    /\ backend \in Backends
    /\ fileExists \in BOOLEAN
    /\ opened = [h \in Handles |-> FALSE]
    /\ held = [h \in Handles |-> FALSE]
    /\ foreign = FALSE
    /\ pending = [h \in Handles |-> 0]
    /\ event = [h \in Handles |-> "closed"]
    /\ pc = [h \in Handles |-> "idle"]
    /\ op = [h \in Handles |-> "none"]
    /\ result = [h \in Handles |-> "none"]
    /\ timeout = [h \in Handles |-> 0]
    /\ elapsed = [h \in Handles |-> 0]
    /\ attempts = [h \in Handles |-> 0]
    /\ slept = [h \in Handles |-> 0]
    /\ believes = [h \in Handles |-> FALSE]
    /\ contention = [h \in Handles |-> "free"]
    /\ counter = [h \in Handles |-> 0]
    /\ waitMs = [h \in Handles |-> NoWait]

\* Native calls fail only for the reasons the lock table gives.
Init == Start /\ faults = 0


\* ------------------------------------------------------ native calls
\* An error of a native lock or unlock call's own, not a verdict of the lock
\* table (flock: EINTR, ENOLCK, EBADF; windows: an invalid handle).
Errno == IF backend = "flock" THEN "ENOLCK" ELSE "ERROR_INVALID_HANDLE"

\* What a native lock or unlock call can report when the lock table says e.
Outcomes(e) == IF faults > 0 THEN {e, Errno} ELSE {e}

\* A native call was made: one failure fewer is to come if it `failed` that way.
Spend(failed) == faults' = IF failed THEN faults - 1 ELSE faults

\* New's open: open(O_CREAT|O_RDONLY) on flock, CreateFile(CREATE_NEW) on windows.
openFile(exists) ==
    IF backend = "flock" THEN "nil"
    ELSE IF exists THEN "ERROR_FILE_EXISTS" ELSE "nil"

\* Variant: the attempt reports would-block whatever the lock table says.
flockNBNever(h) == "EWOULDBLOCK"

\* syscall.Flock(fd, LOCK_EX|LOCK_NB)
flockNB(h) == IF CanGrant(h) THEN "nil" ELSE "EWOULDBLOCK"

\* Variant: a request the system reports as pending is not returned as an error.
lockFileExPendingOk(h) == "nil"

\* lockFileEx: r1 = 0 is returned as the error e1, ERROR_IO_PENDING included.
lockFileEx(h) == IF CanGrant(h) THEN "nil" ELSE "ERROR_IO_PENDING"

\* unlockFileEx
unlockFileEx(h) == IF held[h] THEN "nil" ELSE "ERROR_NOT_LOCKED"

\* createEvent(nil, true, true, nil), called by newOverlapped.
createEvent == IF faults > 0 THEN {"nil", "ERROR_NO_SYSTEM_RESOURCES"} ELSE {"nil"}

\* Variant: the event is not closed when the call returns.
CloseHandleNever(ev) == ev

\* defer syscall.CloseHandle(ol.HEvent): the event once the call has returned.
CloseHandle(ev) == "closed"

\* timeout.Nanoseconds(), the timeout being in milliseconds here.
Nanoseconds(to) == to * 1000000

\* The argument LockWithTimeout passes to the wait:
\* uint32(timeout.Nanoseconds() / 1000)
waitArg(to) == uint32(Nanoseconds(to) \div 1000)

\* syscall.WaitForSingleObject(ev, ms): the event results it can report.  A wait
\* without limit on an event that is not signaled does not return.
WaitForSingleObject(ev, ms) ==
    (IF ev = "signaled" THEN {"WAIT_OBJECT_0"}
     ELSE IF ms = INFINITE THEN {}
     ELSE {"WAIT_TIMEOUT"})
    \cup (IF faults > 0 THEN {"WAIT_FAILED"} ELSE {})

\* The error Go's wrapper returns beside the event result.
waitErr(code) == IF code = "WAIT_FAILED" THEN "EINVAL" ELSE "nil"

\* Variant: the release leaves the lock table as it was.
ReleaseNothing(h) == held

\* Variant: the release drops the lock of the file, whichever handle owns it.
ReleaseFile(h) == [g \in Handles |-> FALSE]

\* The lock table after h's lock is released (LOCK_UN, UnlockFileEx).
Release(h) == [held EXCEPT ![h] = FALSE]

\* Variant: the elapsed time is not compared with the timeout.
TimedOutAtOnce(to, el) == to > 0 /\ el >= 0

\* Variant: the check is not guarded by timeout > 0.
TimedOutAlways(to, el) == el > to

\* Variant: the timeout expires one poll interval late.
TimedOutLate(to, el) == to > 0 /\ el > to + PollInterval

\* timeout > 0 && time.Since(t) > timeout
TimedOut(to, el) == to > 0 /\ el > to

\* Variant: t is never set on the first iteration, so the time since t is
\* beyond every timeout from the start.
ExpiredFromStart(first, to, el) == to > 0 /\ (first \/ el > to)

\* The head of an iteration of LockWithTimeout's loop: the first one (t is zero)
\* sets t and checks nothing, a later one checks the elapsed time.
Expired(first, to, el) == ~first /\ TimedOut(to, el)

\* Variant: every error of an attempt leads to the sleep and another attempt.
RetryAlways(err) == TRUE

\* err == syscall.EWOULDBLOCK: the only error that leads to the sleep and another
\* attempt.
Retry(err) == err = "EWOULDBLOCK"

\* The lock table once a release left it as `after` (and the other process's lock
\* as `other`): windows completes a queued request when the range is free (which
\* one is the system's choice), and signals the request's event if it is still
\* open.
Regrant(after, other) ==
    LET free == ~other /\ \A g \in Handles : ~after[g]
        waiting == {g \in Handles : pending[g] > 0}
    IN  IF backend = "LockFileEx" /\ free /\ waiting # {}
        THEN \E g \in waiting :
                /\ held' = [after EXCEPT ![g] = TRUE]
                /\ pending' = [pending EXCEPT ![g] = @ - 1]
                /\ event' = [event EXCEPT ![g] =
                                IF @ = "unsignaled" THEN "signaled" ELSE @]
        ELSE /\ held' = after
             /\ pending' = pending
             /\ event' = event

\* ---------------------------------------------------------- operations
\* New(filename)
New(h) ==
    /\ ~opened[h]
    /\ pc[h] = "idle"
    /\ LET err == openFile(fileExists)
       IN  /\ result' = [result EXCEPT ![h] = err]
           /\ opened' = [opened EXCEPT ![h] = (err = "nil")]
           /\ fileExists' = (fileExists \/ err = "nil")
    /\ op' = [op EXCEPT ![h] = "New"]
    /\ UNCHANGED <<backend, held, foreign, pending, event, pc, timeout, elapsed,
                   attempts, slept, believes, contention, counter, waitMs, faults>>

\* The overlapped lock request shared by Lock and LockWithTimeout on windows:
\* newOverlapped (whose error is returned before the event's close is deferred),
\* then lockFileEx, which the system grants at once (the event is signaled) or
\* queues (the event is reset), and the return of its error, when the deferred
\* CloseHandle closes the event.
Request(h) ==
    \E made \in createEvent :
        IF made # "nil"
        THEN /\ result' = [result EXCEPT ![h] = made]
             /\ attempts' = [attempts EXCEPT ![h] = 0]
             /\ Spend(TRUE)
             /\ UNCHANGED <<held, pending, event, pc>>
        ELSE \E err \in Outcomes(lockFileEx(h)) :
                LET granted == err # Errno /\ CanGrant(h)
                    queued == err # Errno /\ ~CanGrant(h)
                    ev == IF queued THEN "unsignaled" ELSE "signaled"
                IN  /\ attempts' = [attempts EXCEPT ![h] = 1]
                    /\ Spend(err = Errno)
                    /\ queued => pending[h] < MaxPending
                    /\ held' = [held EXCEPT ![h] = (@ \/ granted)]
                    /\ pending' = [pending EXCEPT ![h] = IF queued THEN @ + 1 ELSE @]
                    /\ IF err = "nil"
                       THEN /\ event' = [event EXCEPT ![h] = ev]
                            /\ pc' = [pc EXCEPT ![h] = "wait"]
                            /\ result' = [result EXCEPT ![h] = "none"]
                       ELSE /\ event' = [event EXCEPT ![h] = CloseHandle(ev)]
                            /\ result' = [result EXCEPT ![h] = err]
                            /\ pc' = pc

\* Lock()
Lock(h) ==
    /\ opened[h]
    /\ pc[h] = "idle"
    /\ op' = [op EXCEPT ![h] = "Lock"]
    /\ contention' = [contention EXCEPT ![h] = Contention(h)]
    /\ timeout' = [timeout EXCEPT ![h] = 0]
    /\ elapsed' = [elapsed EXCEPT ![h] = 0]
    /\ slept' = [slept EXCEPT ![h] = 0]
    /\ waitMs' = [waitMs EXCEPT ![h] = NoWait]
    /\ IF backend = "flock"
       THEN /\ pc' = [pc EXCEPT ![h] = "flock"]
            /\ result' = [result EXCEPT ![h] = "none"]
            /\ attempts' = [attempts EXCEPT ![h] = 1]
            /\ UNCHANGED <<held, pending, event, faults>>
       ELSE Request(h)
    /\ UNCHANGED <<backend, fileExists, opened, foreign, believes, counter>>

\* syscall.Flock(fd, LOCK_EX) returns, with the lock or with an error of its own:
\* Lock() returns its result.
LockReturn(h) ==
    /\ pc[h] = "flock"
    /\ \E err \in Outcomes("nil") :
          /\ err = "nil" => CanGrant(h)
          /\ held' = [held EXCEPT ![h] = (@ \/ err = "nil")]
          /\ result' = [result EXCEPT ![h] = err]
          /\ believes' = [believes EXCEPT ![h] = (@ \/ err = "nil")]
          /\ Spend(err = Errno)
    /\ pc' = [pc EXCEPT ![h] = "idle"]
    /\ UNCHANGED <<backend, fileExists, opened, foreign, pending, event, op, timeout,
                   elapsed, attempts, slept, contention, counter, waitMs>>

\* Unlock()
Unlock(h) ==
    /\ opened[h]
    /\ pc[h] = "idle"
    /\ op' = [op EXCEPT ![h] = "Unlock"]
    /\ believes' = [believes EXCEPT ![h] = FALSE]
    /\ \E err \in Outcomes(IF backend = "flock" THEN "nil" ELSE unlockFileEx(h)) :
          /\ result' = [result EXCEPT ![h] = err]
          /\ Spend(err = Errno)
          /\ IF err = "nil"
             THEN Regrant(Release(h), foreign)
             ELSE UNCHANGED <<held, pending, event>>
          /\ contention' = [(IF held[h] /\ err = "nil"
                                THEN Released(contention) ELSE contention)
                                EXCEPT ![h] = Contention(h)]
    /\ timeout' = [timeout EXCEPT ![h] = 0]
    /\ elapsed' = [elapsed EXCEPT ![h] = 0]
    /\ slept' = [slept EXCEPT ![h] = 0]
    /\ attempts' = [attempts EXCEPT ![h] = 0]
    /\ waitMs' = [waitMs EXCEPT ![h] = NoWait]
    /\ UNCHANGED <<backend, fileExists, opened, foreign, pc>>


\* One non-blocking attempt of LockWithTimeout's loop on flock, after `made`
\* earlier ones, and what follows it: nil is returned, EWOULDBLOCK leads to the
\* sleep, any other error is returned.
Attempt(h, made) ==
    \E err \in Outcomes(flockNB(h)) :
        /\ attempts' = [attempts EXCEPT ![h] = made + 1]
        /\ Spend(err = Errno)
        /\ IF err = "nil"
           THEN /\ held' = [held EXCEPT ![h] = TRUE]
                /\ result' = [result EXCEPT ![h] = "nil"]
                /\ pc' = [pc EXCEPT ![h] = "idle"]
                /\ believes' = [believes EXCEPT ![h] = TRUE]
           ELSE IF Retry(err)
           THEN /\ result' = [result EXCEPT ![h] = "none"]
                /\ pc' = [pc EXCEPT ![h] = "sleep"]
                /\ UNCHANGED <<held, believes>>
           ELSE /\ result' = [result EXCEPT ![h] = err]
                /\ pc' = [pc EXCEPT ![h] = "idle"]
                /\ UNCHANGED <<held, believes>>

\* Variant: an iteration makes the attempt first and checks the elapsed time only
\* after a would-block result, before the sleep.
IterationAttemptFirst(h, first, to, el, made) ==
    \E err \in Outcomes(flockNB(h)) :
        /\ attempts' = [attempts EXCEPT ![h] = made + 1]
        /\ Spend(err = Errno)
        /\ held' = [held EXCEPT ![h] = (@ \/ err = "nil")]
        /\ believes' = [believes EXCEPT ![h] = (@ \/ err = "nil")]
        /\ IF Retry(err) /\ ~TimedOut(to, el)
           THEN /\ result' = [result EXCEPT ![h] = "none"]
                /\ pc' = [pc EXCEPT ![h] = "sleep"]
           ELSE /\ result' = [result EXCEPT ![h] =
                                 IF Retry(err) THEN "ErrTimeout" ELSE err]
                /\ pc' = [pc EXCEPT ![h] = "idle"]

\* One iteration of LockWithTimeout's loop on flock: its head, then the attempt.
Iteration(h, first, to, el, made) ==
    IF Expired(first, to, el)
    THEN /\ result' = [result EXCEPT ![h] = "ErrTimeout"]
         /\ pc' = [pc EXCEPT ![h] = "idle"]
         /\ attempts' = [attempts EXCEPT ![h] = made]
         /\ UNCHANGED <<held, believes, faults>>
    ELSE Attempt(h, made)

\* LockWithTimeout(timeout): on flock the first iteration of the loop; on windows
\* the overlapped request.
LockWithTimeout(h, to) ==
    /\ opened[h]
    /\ pc[h] = "idle"
    /\ op' = [op EXCEPT ![h] = "LockWithTimeout"]
    /\ contention' = [contention EXCEPT ![h] = Contention(h)]
    /\ timeout' = [timeout EXCEPT ![h] = to]
    /\ elapsed' = [elapsed EXCEPT ![h] = 0]
    /\ slept' = [slept EXCEPT ![h] = 0]
    /\ waitMs' = [waitMs EXCEPT ![h] = NoWait]
    /\ IF backend = "flock"
       THEN /\ Iteration(h, TRUE, to, 0, 0)
            /\ UNCHANGED <<pending, event>>
       ELSE /\ Request(h)
            /\ UNCHANGED believes
    /\ UNCHANGED <<backend, fileExists, opened, foreign, counter>>


\* time.Sleep(50 * time.Millisecond): at least the interval passes.
Sleep(h) ==
    /\ pc[h] = "sleep"
    /\ slept[h] < MaxSleeps
    /\ \E over \in Overshoots :
          elapsed' = [elapsed EXCEPT ![h] = @ + PollInterval + over]
    /\ slept' = [slept EXCEPT ![h] = @ + 1]
    /\ pc' = [pc EXCEPT ![h] = "loop"]
    /\ UNCHANGED <<backend, fileExists, opened, held, foreign, pending, event, op,
                   result, timeout, attempts, believes, contention, counter, waitMs,
                   faults>>

\* An iteration of LockWithTimeout's loop after the first.
Loop(h) ==
    /\ pc[h] = "loop"
    /\ Iteration(h, FALSE, timeout[h], elapsed[h], attempts[h])
    /\ UNCHANGED <<backend, fileExists, opened, foreign, pending, event, op, timeout,
                   elapsed, slept, contention, counter, waitMs>>

\* The wait on the event that ends Lock (INFINITE) and LockWithTimeout on windows:
\* the event result is dropped and the error returned; the deferred CloseHandle
\* closes the event.
Wait(h) ==
    /\ pc[h] = "wait"
    /\ LET ms == IF op[h] = "Lock" THEN INFINITE ELSE waitArg(timeout[h])
       IN  /\ waitMs' = [waitMs EXCEPT ![h] = ms]
           /\ \E code \in WaitForSingleObject(event[h], ms) :
                 /\ result' = [result EXCEPT ![h] = waitErr(code)]
                 /\ believes' = [believes EXCEPT ![h] = (@ \/ waitErr(code) = "nil")]
                 /\ Spend(code = "WAIT_FAILED")
    /\ event' = [event EXCEPT ![h] = CloseHandle(@)]
    /\ pc' = [pc EXCEPT ![h] = "idle"]
    /\ UNCHANGED <<backend, fileExists, opened, held, foreign, pending, op, timeout,
                   elapsed, attempts, slept, contention, counter>>

\* ------------------------------------------------------ other processes
\* On windows the file is opened shared "so that other processes can open the file
\* (but will still need to lock it)", while New itself opens no second handle on
\* an existing file: a process that opened the file by its own means takes the
\* exclusive lock when it is free, and releases it.  (On flock a lock taken by
\* another process is the lock of another handle.)
ForeignLock ==
    /\ backend = "LockFileEx"
    /\ fileExists
    /\ Holders = {}
    /\ foreign' = TRUE
    /\ UNCHANGED <<backend, fileExists, opened, held, pending, event, pc, op, result,
                   timeout, elapsed, attempts, slept, believes, contention, counter,
                   waitMs, faults>>

ForeignUnlock ==
    /\ foreign
    /\ foreign' = FALSE
    /\ Regrant(held, FALSE)
    /\ contention' = Released(contention)
    /\ UNCHANGED <<backend, fileExists, opened, pc, op, result, timeout,
                   elapsed, attempts, slept, believes, counter, waitMs, faults>>

\* ------------------------------------------------------- specification
\* Any caller: each handle is used by one caller at a time, which makes any call
\* of the interface once the previous one has returned.
Next ==
    \/ \E h \in Handles : New(h)
    \/ \E h \in Handles : Lock(h)
    \/ \E h \in Handles : LockReturn(h)
    \/ \E h \in Handles : Unlock(h) /\ UNCHANGED counter
    \/ \E h \in Handles : \E to \in Timeouts : LockWithTimeout(h, to)
    \/ \E h \in Handles : Sleep(h)
    \/ \E h \in Handles : Loop(h)
    \/ \E h \in Handles : Wait(h)
    \/ ForeignLock
    \/ ForeignUnlock

Spec == Init /\ [][Next]_vars

\* An environment where some native calls fail with errors of their own.
InitFault == Start /\ faults = MaxFaults

\* How a native failure is handled does not depend on the timeout: one timeout
\* that never expires and one longer than a poll interval take LockWithTimeout
\* through every step of its loop.
FaultTimeouts == {0, MaxTimeout}

\* The callers in that environment.
NextFault ==
    \/ \E h \in Handles : New(h)
    \/ \E h \in Handles : Lock(h)
    \/ \E h \in Handles : LockReturn(h)
    \/ \E h \in Handles : Unlock(h) /\ UNCHANGED counter
    \/ \E h \in Handles : \E to \in FaultTimeouts : LockWithTimeout(h, to)
    \/ \E h \in Handles : Sleep(h)
    \/ \E h \in Handles : Loop(h)
    \/ \E h \in Handles : Wait(h)
    \/ ForeignLock
    \/ ForeignUnlock

SpecFault == InitFault /\ [][NextFault]_vars


\* ---------------------------------------------------------- TestStress
\* The test's lockState: incremented right after a Lock that returned nil and
\* decremented right before the Unlock, so it is never more than the number of
\* handles whose caller believes it holds the lock.
lockState == Cardinality({h \in Handles : believes[h]})

\* One worker of TestStress: New, then lockAttempts times Lock and Unlock, each
\* asserted to return nil, counting the completed cycles.
stress(h) ==
    \/ New(h)
    \/ /\ counter[h] < lockAttempts
       /\ ~believes[h]
       /\ Lock(h)
    \/ LockReturn(h)
    \/ /\ believes[h]
       /\ Unlock(h)
       /\ counter' = [counter EXCEPT ![h] = @ + 1]

NextStress == \E h \in Handles : stress(h)

\* The test runs in a fresh directory, on the flock backend.
InitStress == Init /\ backend = "flock" /\ ~fileExists

\* The scheduler runs every worker that can take a step, and the system's lock
\* facility does not pass over a blocked flock forever.
SpecStress ==
    /\ InitStress
    /\ [][NextStress]_vars
    /\ \A h \in Handles : WF_vars(stress(h)) /\ SF_vars(LockReturn(h))

\* The sum of f over S.
RECURSIVE Sum(_, _)
Sum(f, S) == IF S = {} THEN 0 ELSE LET x == CHOOSE y \in S : TRUE IN f[x] + Sum(f, S \ {x})


\* ------------------------------------------------------------- claims
Returned(h, call) == op[h] = call /\ pc[h] = "idle" /\ result[h] # "none"

\* C1. Mutual exclusion: in every reachable state at most one owner (a handle, or
\* another process) holds the exclusive lock; the callers that were told nil and
\* have not called Unlock since are at most one, and each of them holds the lock,
\* so the test's lockState counter is always 0 or 1.
C1_MutualExclusion ==
    /\ Cardinality(Holders) <= 1
    /\ lockState <= 1
    /\ \A h \in Handles : believes[h] => held[h]

\* C1 witness: one handle holds the lock while another one is inside a call that
\* wants it.
C1_Witness ==
    \E h, g \in Handles :
        /\ h # g
        /\ held[h] /\ believes[h]
        /\ pc[g] \in {"flock", "sleep"}
        /\ contention[g] = "held"

\* C2 (as claimed). Blocking: a Lock() that was called while another owner held
\* the lock has not returned for as long as that owner has not released it.
C2_LockBlocks ==
    \A h \in Handles : Returned(h, "Lock") => contention[h] # "held"

\* C3 (as claimed). Hand-over: a Lock() that was called while another owner held
\* the lock, and that has returned after that owner released it, returned nil with
\* the handle holding the lock.
C3_HandOver ==
    \A h \in Handles :
        (Returned(h, "Lock") /\ contention[h] = "released")
            => (result[h] = "nil" /\ held[h])

\* C4 (as claimed). Timeout on a contended lock: a LockWithTimeout(t), t > 0, that
\* returned while another owner held the lock throughout the call returned
\* ErrTimeout, and the handle does not hold the lock.
C4_TimeoutContended ==
    \A h \in Handles :
        (Returned(h, "LockWithTimeout") /\ timeout[h] > 0 /\ contention[h] = "held")
            => (result[h] = "ErrTimeout" /\ ~held[h])

\* C5 (as claimed). Zero timeout means try-once: a LockWithTimeout(0) that met the
\* lock held by another owner made one attempt, never sleeps, and has returned an
\* error.
C5_TryOnce ==
    \A h \in Handles :
        (op[h] = "LockWithTimeout" /\ timeout[h] = 0
            /\ contention[h] \in {"held", "released"})
            => /\ attempts[h] = 1
               /\ slept[h] = 0
               /\ pc[h] = "idle"
               /\ result[h] \notin {"none", "nil"}

\* C5 (amended). A zero timeout never expires on the flock backend: the call never
\* returns ErrTimeout; it makes one attempt per iteration with a sleep after each
\* would-block, does not return while the lock has been held by another owner
\* throughout, and returns only nil, holding the lock.  Only on the LockFileEx
\* backend does the call make a single request and fail at once, with
\* ERROR_IO_PENDING, when another owner holds the lock.
C5_ZeroTimeout ==
    \A h \in Handles :
        (op[h] = "LockWithTimeout" /\ timeout[h] = 0) =>
            /\ result[h] # "ErrTimeout"
            /\ backend = "flock" =>
                  /\ result[h] \in {"none", "nil"}
                  /\ attempts[h] = (IF pc[h] = "loop" THEN slept[h] ELSE slept[h] + 1)
                  /\ contention[h] = "held" => pc[h] # "idle"
                  /\ pc[h] = "idle" => (result[h] = "nil" /\ held[h])
            /\ (backend = "LockFileEx" /\ contention[h] \in {"held", "released"}) =>
                  /\ Returned(h, "LockWithTimeout")
                  /\ result[h] = "ERROR_IO_PENDING"
                  /\ attempts[h] = 1
                  /\ slept[h] = 0

\* C5 witness: on flock a LockWithTimeout(0) slept and retried, and got the lock
\* once its holder released it.
C5_Witness ==
    \E h \in Handles :
        /\ backend = "flock"
        /\ Returned(h, "LockWithTimeout") /\ timeout[h] = 0
        /\ contention[h] = "released"
        /\ slept[h] >= 2 /\ attempts[h] >= 3
        /\ result[h] = "nil"

\* C6 (as claimed). New(path) succeeds when the file at path already exists.
C6_NewOnExistingFile ==
    [][\A h \in Handles :
          (fileExists /\ New(h)) => (opened'[h] /\ result'[h] = "nil")]_vars

\* C7. Timeout is never early: a LockWithTimeout(t), t > 0, that returned
\* ErrTimeout did so with at least t elapsed since the call began.
C7_NeverEarly ==
    \A h \in Handles :
        (Returned(h, "LockWithTimeout") /\ result[h] = "ErrTimeout")
            => (timeout[h] > 0 /\ elapsed[h] >= timeout[h])

\* C7 witness: a LockWithTimeout with a timeout longer than one poll interval
\* returned ErrTimeout.
C7_Witness ==
    \E h \in Handles :
        /\ Returned(h, "LockWithTimeout") /\ result[h] = "ErrTimeout"
        /\ timeout[h] > PollInterval

\* C8. Uncontended timed lock: a LockWithTimeout on a path locked by nobody makes
\* one attempt, which succeeds; it never sleeps or blocks in a wait, returns nil,
\* and the handle holds the lock.
C8_Uncontended ==
    \A h \in Handles :
        (op[h] = "LockWithTimeout" /\ contention[h] = "free") =>
            /\ held[h]
            /\ attempts[h] = 1 /\ slept[h] = 0 /\ elapsed[h] = 0
            /\ pc[h] \in {"idle", "wait"}
            /\ pc[h] = "idle" => (result[h] = "nil" /\ believes[h])
            /\ pc[h] = "wait" => event[h] = "signaled"

\* C8 witness: a LockWithTimeout with a positive timeout on a free lock returned
\* nil.
C8_Witness ==
    \E h \in Handles :
        /\ Returned(h, "LockWithTimeout") /\ contention[h] = "free"
        /\ timeout[h] > 0 /\ result[h] = "nil" /\ held[h]

\* C9. Lock/Unlock round trip (flock): the holder's Unlock returns nil, leaves the
\* lock held by nobody and the descriptor open; and every Lock() that returns,
\* after any number of completed cycles of any handle, returns nil with the handle
\* holding the lock.
C9_RoundTrip ==
    [][\A h \in Handles :
          /\ (held[h] /\ Unlock(h)) =>
                (result'[h] = "nil" /\ Holders' = {} /\ opened'[h])
          /\ (pc[h] = "flock" /\ pc'[h] = "idle") =>
                (result'[h] = "nil" /\ held'[h] /\ Holders' = {h})]_vars

\* C9 witness: a handle that completed a cycle holds the lock again through a
\* fresh Lock(), after another handle completed a cycle too.
C9_Witness ==
    \E h, g \in Handles :
        /\ h # g
        /\ counter[h] >= 1 /\ counter[g] >= 1
        /\ Returned(h, "Lock") /\ result[h] = "nil" /\ held[h]

StressDone ==
    /\ \A h \in Handles : pc[h] = "idle" /\ counter[h] = lockAttempts /\ ~held[h]
    /\ Sum(counter, Handles) = concurrentLocks * lockAttempts

\* C10. Stress completion: every New, Lock and Unlock of the workers returns nil,
\* no worker completes more than lockAttempts cycles, and eventually every worker
\* has terminated with concurrentLocks * lockAttempts cycles completed in total.
C10_StressCompletes ==
    /\ [](\A h \in Handles : result[h] \in {"none", "nil"} /\ counter[h] <= lockAttempts)
    /\ <>[]StressDone

\* C10 witness: all workers are done and the total is N * M.
C10_Witness == StressDone /\ \A h \in Handles : Returned(h, "Unlock")

\* C11. Nil means held: a Lock() or LockWithTimeout() that returned nil, on either
\* backend, left the handle as the one owner of the lock, and the handle owns it
\* for as long as that call is the last one made on it; a wait is only ever made
\* on a request already granted, its event signaled, so no wait ends by timing
\* out and none that did is reported as nil.
C11_NilMeansHeld ==
    \A h \in Handles :
        /\ (op[h] \in {"Lock", "LockWithTimeout"} /\ pc[h] = "idle"
                /\ result[h] = "nil")
              => (held[h] /\ Holders = {h})
        /\ pc[h] = "wait" => (held[h] /\ event[h] = "signaled")

\* C11 witness: on windows a LockWithTimeout with a positive timeout went through
\* the wait and returned nil.
C11_Witness ==
    \E h \in Handles :
        /\ backend = "LockFileEx"
        /\ Returned(h, "LockWithTimeout") /\ timeout[h] > 0
        /\ waitMs[h] # NoWait
        /\ result[h] = "nil" /\ held[h]

\* C12 (as claimed). Pending is not an error on windows: a Lock() or
\* LockWithTimeout() never returns ERROR_IO_PENDING; a call that returned without
\* having waited on its event returned a failure of newOverlapped or a synchronous
\* failure of the lock request other than pending.
C12_PendingNotAnError ==
    \A h \in Handles :
        (backend = "LockFileEx" /\ op[h] \in {"Lock", "LockWithTimeout"}) =>
            /\ result[h] # "ERROR_IO_PENDING"
            /\ (pc[h] = "idle" /\ waitMs[h] = NoWait)
                  => result[h] \in {Errno, "ERROR_NO_SYSTEM_RESOURCES"}

\* C13 (as claimed). Timeout unit conversion on windows: the argument a
\* LockWithTimeout(t), t >= 0, passed to the native wait is t in milliseconds, as
\* a 32-bit unsigned value.
C13_WaitMilliseconds ==
    \A h \in Handles :
        (op[h] = "LockWithTimeout" /\ waitMs[h] # NoWait /\ timeout[h] >= 0)
            => waitMs[h] = uint32(timeout[h])

\* C14 (as claimed). Poll-loop ordering on flock: when LockWithTimeout returns
\* ErrTimeout the step before the return was an attempt that reported would-block,
\* with no sleep after it: the call made one attempt more than it slept.
C14_AttemptPrecedesTimeout ==
    \A h \in Handles :
        (Returned(h, "LockWithTimeout") /\ result[h] = "ErrTimeout")
            => attempts[h] = slept[h] + 1

\* C14 (amended). Every iteration after the first checks the elapsed time first
\* and makes the attempt after it, and every would-block attempt is followed by
\* the sleep: a call that is to sleep made one attempt more than it slept, a call
\* at the head of an iteration slept as often as it attempted, and when
\* LockWithTimeout returns ErrTimeout the step before the return was a sleep, with
\* no attempt after it.
C14_SleepPrecedesTimeout ==
    \A h \in Handles :
        (backend = "flock" /\ op[h] = "LockWithTimeout") =>
            /\ pc[h] = "sleep" => attempts[h] = slept[h] + 1
            /\ pc[h] = "loop" => (attempts[h] = slept[h] /\ slept[h] >= 1)
            /\ result[h] = "ErrTimeout" =>
                  (pc[h] = "idle" /\ attempts[h] = slept[h] /\ slept[h] >= 1)

\* C14 witness: a LockWithTimeout returned ErrTimeout after two attempts and two
\* sleeps.
C14_Witness ==
    \E h \in Handles :
        /\ Returned(h, "LockWithTimeout") /\ result[h] = "ErrTimeout"
        /\ attempts[h] = 2 /\ slept[h] = 2

\* C15. The first attempt precedes any timeout check on flock: a LockWithTimeout,
\* whatever its timeout (negative, zero, small or large), has made at least one
\* attempt from its first step on, so also when it returns ErrTimeout.
C15_FirstAttempt ==
    \A h \in Handles :
        (backend = "flock" /\ op[h] = "LockWithTimeout") =>
            /\ attempts[h] >= 1
            /\ result[h] = "ErrTimeout" => timeout[h] > 0

\* C15 witness: a LockWithTimeout with the smallest positive timeout returned
\* ErrTimeout having made an attempt, while another with a negative timeout is
\* past its first attempt.
C15_Witness ==
    \E h, g \in Handles :
        /\ Returned(h, "LockWithTimeout") /\ result[h] = "ErrTimeout"
        /\ timeout[h] = MinTimeout /\ attempts[h] = 1
        /\ op[g] = "LockWithTimeout" /\ timeout[g] < 0 /\ attempts[g] >= 1

\* C17. Bounded overshoot on flock: a LockWithTimeout(t), t > 0, that met the lock
\* held by another handle, which kept it throughout, and whose sleeps all lasted
\* just the poll interval, has returned nothing but ErrTimeout, at an elapsed time
\* greater than t and at most t plus one poll interval, after at most
\* floor(t / 50ms) + 1 attempts; until then it has made no more attempts than that.
C17_BoundedOvershoot ==
    \A h \in Handles :
        (/\ backend = "flock" /\ op[h] = "LockWithTimeout"
         /\ timeout[h] > 0 /\ contention[h] = "held"
         /\ elapsed[h] = slept[h] * PollInterval) =>
            /\ attempts[h] <= (timeout[h] \div PollInterval) + 1
            /\ pc[h] = "idle" =>
                  /\ result[h] = "ErrTimeout"
                  /\ elapsed[h] > timeout[h]
                  /\ elapsed[h] <= timeout[h] + PollInterval

\* C17 witness: a LockWithTimeout with a timeout longer than the poll interval
\* returned ErrTimeout after sleeps of just the poll interval, the lock held by
\* another handle throughout.
C17_Witness ==
    \E h \in Handles :
        /\ Returned(h, "LockWithTimeout") /\ result[h] = "ErrTimeout"
        /\ timeout[h] > PollInterval /\ contention[h] = "held"
        /\ slept[h] >= 2 /\ elapsed[h] = slept[h] * PollInterval

\* The step is one of the call on h.
Acted(h) ==
    <<op[h], pc[h], result[h], attempts[h]>>' # <<op[h], pc[h], result[h], attempts[h]>>

\* C16. No retry on hard errors: a step in which a native call made by Lock(),
\* LockWithTimeout() or Unlock() on h fails with an error of its own (not
\* would-block or pending) is the last step of that call, which returns that
\* error having made at most that one more native lock attempt, and the step
\* leaves the owner of the lock, every handle's ownership and the queued requests
\* as they were.
C16_NoRetry ==
    [][\A h \in Handles :
          (faults' # faults /\ Acted(h)) =>
              /\ pc'[h] = "idle"
              /\ result'[h] \in {Errno, "ERROR_NO_SYSTEM_RESOURCES", "EINVAL"}
              /\ op'[h] \in {"Lock", "LockWithTimeout"} =>
                    attempts'[h] \in {0, 1, attempts[h], attempts[h] + 1}
              /\ (pc[h] \in {"sleep", "loop"} \/ op'[h] = "Unlock") =>
                    result'[h] = Errno
              /\ held' = held /\ foreign' = foreign /\ pending' = pending
              /\ believes'[h] => believes[h]]_vars

\* C16 witness: a LockWithTimeout on flock returned the error of its second
\* attempt, made after one sleep, the lock being held by another handle.
C16_Witness ==
    \E h, g \in Handles :
        /\ h # g
        /\ Returned(h, "LockWithTimeout") /\ result[h] = Errno
        /\ attempts[h] = 2 /\ slept[h] = 1
        /\ held[g] /\ believes[g] /\ ~held[h]

\* C18 (as claimed). A failed timed acquire leaves nothing behind: a handle whose
\* last call is a LockWithTimeout that returned an error, and that did not own the
\* lock when it made the call, does not own the lock and has no lock request
\* queued.
C18_NothingLeftBehind ==
    \A h \in Handles :
        (Returned(h, "LockWithTimeout") /\ result[h] # "nil"
            /\ contention[h] # "self")
            => (~held[h] /\ pending[h] = 0)

\* C19. Unlock by a non-holder is harmless to others: an Unlock() on a handle that
\* does not own the lock (never locked, or already unlocked) leaves the lock table
\* as it was, the lock of another handle or of another process included, and
\* makes no handle an owner.
C19_UnlockByNonHolder ==
    [][\A h \in Handles :
          (~held[h] /\ Unlock(h)) =>
              /\ held' = held
              /\ foreign' = foreign
              /\ Holders' = Holders]_vars

\* C19 witness: an Unlock on a handle that did not own the lock has returned nil
\* while another handle owned the lock, which it still owns.
C19_Witness ==
    \E h, g \in Handles :
        /\ h # g
        /\ Returned(h, "Unlock") /\ result[h] = "nil"
        /\ contention[h] = "held"
        /\ held[g] /\ believes[g] /\ ~held[h]

\* C20. Event object lifetime on windows: the event object of a handle is open
\* only while a Lock() or LockWithTimeout() on the handle is between its lock
\* request and the return from its wait; once the call has returned, with nil,
\* with the error of the lock request or with that of the wait, or when
\* newOverlapped failed, no event object of the handle is open.
C20_EventLifetime ==
    \A h \in Handles :
        /\ pc[h] = "wait" =>
              (backend = "LockFileEx" /\ event[h] \in {"signaled", "unsignaled"})
        /\ pc[h] # "wait" => event[h] = "closed"

\* C20 witness: on windows a call has returned the error of its lock request, made
\* with an event object, while another process owns the lock.
C20_Witness ==
    \E h \in Handles :
        /\ backend = "LockFileEx" /\ foreign
        /\ Returned(h, "LockWithTimeout")
        /\ result[h] \in {"ERROR_IO_PENDING", Errno}
        /\ attempts[h] = 1 /\ event[h] = "closed"

=============================================================================
